---- MODULE Spec2Model ----
(***************************************************************************)
(* Model of convid (src/convid/convid.py): a command-line tool that        *)
(* converts a video by delegating to an external ffmpeg executable,        *)
(* optionally removes the source, and keeps the executable's path in       *)
(* <home>/.config/convid.json.                                             *)
(*                                                                         *)
(* Strings are sequences of one-character strings.  The file system holds  *)
(* the entries of the working directory "/"; the configuration directory   *)
(* and file are kept apart from it (cfg_dir, cfg_exists, cfg_text).  One   *)
(* process run goes Invoke -> option callback -> validation -> extension   *)
(* check -> conversion -> removal; runs follow each other, each on the      *)
(* file system and configuration store the previous one left.              *)
(***************************************************************************)
EXTENDS Integers, Sequences, FiniteSets, TLC

\* Number of successive runs of the tool that are explored.
MaxRuns == 2

VARIABLES
    pc,          \* position of the current run
    runs,        \* number of runs started
    video, ext, remove, verbose, ffmpeg_opt,   \* arguments of the run (ext is reassigned at line 123)
    f, old_ext, new_file,                      \* locals of convid()
    files, dirs, unreadable,                   \* file system: regular files, directories, entries without read permission
    cfg_dir, cfg_exists, cfg_text,             \* configuration directory / file / file content
    opened, closed,                            \* file handles opened / closed by the run
    exit_code, outcome,                        \* process exit status and the message printed
    log,                                       \* what the run did
    pre,                                       \* file system, store and EXT argument when the run started
    prev_saved                                 \* value accepted by --ffmpeg in the previous run, <<>> if none

vars == <<pc, runs, video, ext, remove, verbose, ffmpeg_opt, f, old_ext, new_file,
          files, dirs, unreadable, cfg_dir, cfg_exists, cfg_text, opened, closed,
          exit_code, outcome, log, pre, prev_saved>>

----------------------------------------------------------------------------
\* Strings

SEP == "/"
EXTSEP == "."
QUOTE == "\""
BACKSLASH == "\\"

\* The default executable name, "ffmpeg" (line 154).
DefaultFfmpeg == <<"f", "f", "m", "p", "e", "g">>
\* The configuration key, "ffmpeg" (lines 54, 154).
FfmpegKey == <<"f", "f", "m", "p", "e", "g">>

\* str.startswith(".")
startswith(s, c) == Len(s) >= 1 /\ s[1] = c

\* str.rfind for one character, 1-based; 0 when absent.
rfind(p, c) ==
    LET hits == {i \in 1..Len(p) : p[i] = c}
    IN  IF hits = {} THEN 0 ELSE CHOOSE i \in hits : \A j \in hits : j <= i

\* os.path.splitext: the extension starts at the last dot of the last
\* component, unless that component's leading characters up to it are all dots.
splitext(p) ==
    LET sepIndex == rfind(p, SEP)
        dotIndex == rfind(p, EXTSEP)
    IN  IF dotIndex > sepIndex
           /\ \E k \in (sepIndex + 1)..(dotIndex - 1) : p[k] # EXTSEP
        THEN <<SubSeq(p, 1, dotIndex - 1), SubSeq(p, dotIndex, Len(p))>>
        ELSE <<p, <<>>>>

\* os.path.abspath for a name without separators, the working directory being "/".
abspath(v) ==
    IF v \in {<<>>, <<".">>, <<".", ".">>} THEN <<SEP>> ELSE <<SEP>> \o v

\* Extension clean-up of lines 122-123.
normalize_ext(e) == IF ~startswith(e, EXTSEP) THEN <<EXTSEP>> \o e ELSE e

----------------------------------------------------------------------------
\* JSON text of the configuration file

\* json.dump's string escaping: a quote or backslash gets a backslash before it.
RECURSIVE json_escape(_)
json_escape(s) ==
    IF s = <<>> THEN <<>>
    ELSE IF Head(s) \in {QUOTE, BACKSLASH}
         THEN <<BACKSLASH, Head(s)>> \o json_escape(Tail(s))
         ELSE <<Head(s)>> \o json_escape(Tail(s))

json_string(s) == <<QUOTE>> \o json_escape(s) \o <<QUOTE>>

\* json.dump of a mapping with at most one key: {} or {"k": "v"}.
json_dump(config) ==
    IF DOMAIN config = {} THEN <<"{", "}">>
    ELSE LET k == CHOOSE x \in DOMAIN config : TRUE
         IN  <<"{">> \o json_string(k) \o <<":", " ">> \o json_string(config[k]) \o <<"}">>

\* Scan a JSON string whose opening quote is at t[i-1]: the decoded
\* characters and the index after the closing quote; ok = FALSE when the text
\* ends first.
RECURSIVE scan_string(_, _, _)
scan_string(t, i, acc) ==
    IF i > Len(t) THEN [ok |-> FALSE, val |-> acc, next |-> i]
    ELSE IF t[i] = QUOTE THEN [ok |-> TRUE, val |-> acc, next |-> i + 1]
    ELSE IF t[i] = BACKSLASH
         THEN IF i + 1 > Len(t) \/ t[i + 1] \notin {QUOTE, BACKSLASH}
              THEN [ok |-> FALSE, val |-> acc, next |-> i]
              ELSE scan_string(t, i + 2, Append(acc, t[i + 1]))
    ELSE scan_string(t, i + 1, Append(acc, t[i]))

RECURSIVE skip_ws(_, _)
skip_ws(t, i) == IF i <= Len(t) /\ t[i] = " " THEN skip_ws(t, i + 1) ELSE i

at(t, i, c) == i <= Len(t) /\ t[i] = c

EmptyConfig == [k \in {} |-> <<>>]

\* json.load for the documents the tool writes: an object with no member or
\* with one string member.  ok = FALSE stands for json.JSONDecodeError.
json_load(t) ==
    LET bad == [ok |-> FALSE, val |-> EmptyConfig]
        i1 == skip_ws(t, 1)
    IN  IF ~at(t, i1, "{") THEN bad
        ELSE LET i2 == skip_ws(t, i1 + 1)
             IN  IF at(t, i2, "}")
                 THEN IF skip_ws(t, i2 + 1) = Len(t) + 1
                      THEN [ok |-> TRUE, val |-> EmptyConfig] ELSE bad
                 ELSE IF ~at(t, i2, QUOTE) THEN bad
                 ELSE LET k == scan_string(t, i2 + 1, <<>>)
                          i3 == skip_ws(t, k.next)
                          i4 == skip_ws(t, i3 + 1)
                          v == scan_string(t, i4 + 1, <<>>)
                          i5 == skip_ws(t, v.next)
                      IN  IF k.ok /\ at(t, i3, ":") /\ at(t, i4, QUOTE) /\ v.ok
                             /\ at(t, i5, "}") /\ skip_ws(t, i5 + 1) = Len(t) + 1
                          THEN [ok |-> TRUE, val |-> [x \in {k.val} |-> v.val]]
                          ELSE bad

\* dict.get(key, default)
dict_get(config, key, default) == IF key \in DOMAIN config THEN config[key] ELSE default

----------------------------------------------------------------------------
\* Environment the runs are explored in

\* Command-line values for VIDEO: two plain files, a hidden file, an
\* unreadable file, a directory, the working directory itself, a missing file.
Videos == { <<"v", ".", "a">>, <<"v">>, <<".", "a">>, <<"u", ".", "a">>,
            <<"d">>, <<".">>, <<"n", ".", "a">> }

\* Command-line values for EXT.
Exts == { <<"a">>, <<".", "a">>, <<"A">>, <<>> }

\* Paths that click.Path(exists=True, dir_okay=False, executable=True) accepts.
Executables == { <<"x">>, <<"q", QUOTE, BACKSLASH>> }

\* Command-line values for --ffmpeg; <<>> is the option left out.
FfmpegOpts == Executables \cup { <<>>, <<"n">> }

\* Configuration stores a run may find: directory missing, file absent, or a
\* file holding a mapping without or with the "ffmpeg" key.
InitialStores ==
    { [dir |-> FALSE, exists |-> FALSE, text |-> <<>>],
      [dir |-> TRUE,  exists |-> FALSE, text |-> <<>>],
      [dir |-> TRUE,  exists |-> TRUE,  text |-> json_dump(EmptyConfig)],
      [dir |-> TRUE,  exists |-> TRUE,  text |-> json_dump([k \in {<<"o">>} |-> <<"y">>])],
      [dir |-> TRUE,  exists |-> TRUE,  text |-> json_dump([k \in {FfmpegKey} |-> <<"x">>])] }

\* ctx.resilient_parsing: click sets it only for shell completion.
resilient_parsing == FALSE

NoLog == [checked |-> FALSE, asked |-> FALSE, configured |-> FALSE,
          cfg_read |-> FALSE, load_raised |-> "", config |-> EmptyConfig,
          invoked |-> FALSE, cmd |-> <<>>, quiet |-> FALSE,
          converted |-> FALSE, removed |-> FALSE, declined |-> FALSE]

----------------------------------------------------------------------------
\* Operations

\* json.dump(obj, fp) as called: it serialises obj and writes to fp.  An obj
\* that is a file object is not serialisable (TypeError) and nothing is written.
dump_call(obj, fp) == IF obj = "dict" /\ fp = "file" THEN "ok" ELSE "TypeError"

\* get_convid_configs() on a store: the exception it raises ("" for none), the
\* mapping it returns, the store it leaves, and the handles it opened / closed.
get_convid_configs(dir, exists, text) ==
    IF exists
    THEN \* with open(convid_config_file) as config_file: json.load(config_file)
         LET r == json_load(text)
         IN  [raised |-> IF r.ok THEN "" ELSE "JSONDecodeError",
              config |-> r.val,
              dir |-> dir, exists |-> exists, text |-> text,
              opened |-> 1, closed |-> 1]
    ELSE \* except FileNotFoundError: mkdir, open(.., "w") truncates/creates the
         \* file, json.dump(out_conf_file, config) raises before close().
         LET d == dump_call("file", "dict")
         IN  [raised |-> IF d = "ok" THEN "" ELSE d,
              config |-> EmptyConfig,
              dir |-> TRUE, exists |-> TRUE,
              text |-> IF d = "ok" THEN json_dump(EmptyConfig) ELSE <<>>,
              opened |-> 1, closed |-> IF d = "ok" THEN 1 ELSE 0]

Init ==
    /\ pc = "idle"
    /\ runs = 0
    /\ video = <<>> /\ ext = <<>> /\ remove = FALSE /\ verbose = FALSE
    /\ ffmpeg_opt = <<>>
    /\ f = <<>> /\ old_ext = <<>> /\ new_file = <<>>
    /\ files = { <<SEP, "v", ".", "a">>, <<SEP, "v">>, <<SEP, ".", "a">>, <<SEP, "u", ".", "a">> }
    /\ dirs = { <<SEP>>, <<SEP, "d">> }
    /\ unreadable = { <<SEP, "u", ".", "a">>, <<SEP, "d">> }
    /\ \E s \in InitialStores :
          /\ cfg_dir = s.dir /\ cfg_exists = s.exists /\ cfg_text = s.text
          /\ pre = [files |-> files, dirs |-> dirs, unreadable |-> unreadable,
                    cfg_dir |-> s.dir, cfg_exists |-> s.exists, cfg_text |-> s.text,
                    ext |-> <<>>]
    /\ opened = 0 /\ closed = 0
    /\ exit_code = -1 /\ outcome = ""
    /\ log = NoLog
    /\ prev_saved = <<>>

\* The process exits: sys.exit(code), ctx.exit(), or an exception reaching click.
Exit(code, what) == pc' = "done" /\ exit_code' = code /\ outcome' = what

store == <<cfg_dir, cfg_exists, cfg_text>>
fs == <<files, dirs, unreadable>>
args == <<video, ext, remove, verbose, ffmpeg_opt>>
handles == <<opened, closed>>
locals == <<f, old_ext, new_file>>

\* A new process is started with its command line.
Invoke ==
    /\ pc \in {"idle", "done"}
    /\ runs < MaxRuns
    /\ \E v \in Videos, e \in Exts, r \in BOOLEAN, vb \in BOOLEAN, o \in FfmpegOpts :
          /\ video' = v /\ ext' = e /\ remove' = r /\ verbose' = vb /\ ffmpeg_opt' = o
    /\ runs' = runs + 1
    /\ pc' = "option"
    /\ f' = <<>> /\ old_ext' = <<>> /\ new_file' = <<>>
    /\ opened' = 0 /\ closed' = 0
    /\ exit_code' = -1 /\ outcome' = ""
    /\ log' = NoLog
    /\ pre' = [files |-> files, dirs |-> dirs, unreadable |-> unreadable,
               cfg_dir |-> cfg_dir, cfg_exists |-> cfg_exists, cfg_text |-> cfg_text,
               ext |-> ext']
    /\ prev_saved' = IF log.configured THEN ffmpeg_opt ELSE <<>>
    /\ UNCHANGED <<fs, store>>

\* The --ffmpeg option's type: a value that is no existing executable file is
\* rejected by click before the callback runs (usage error, status 2).
click_path ==
    /\ pc = "option"
    /\ ffmpeg_opt # <<>> /\ ffmpeg_opt \notin Executables
    /\ Exit(2, "UsageError")
    /\ UNCHANGED <<runs, args, locals, fs, store, handles, log, pre, prev_saved>>

\* The eager callback of --ffmpeg.
configure_ffmpeg ==
    /\ pc = "option"
    /\ ffmpeg_opt = <<>> \/ ffmpeg_opt \in Executables
    /\ IF ffmpeg_opt = <<>> \/ resilient_parsing
       THEN \* return: the command body runs next
            /\ pc' = "check"
            /\ UNCHANGED <<store, handles, exit_code, outcome, log>>
       ELSE IF ~cfg_dir
       THEN \* open(convid_config_file, "w") raises FileNotFoundError, uncaught
            /\ Exit(1, "Traceback")
            /\ log' = [log EXCEPT !.configured = TRUE]
            /\ UNCHANGED <<store, handles>>
       ELSE /\ dump_call("dict", "file") = "ok"
            /\ cfg_exists' = TRUE
            /\ cfg_text' = json_dump([k \in {FfmpegKey} |-> ffmpeg_opt])
            /\ opened' = opened + 1 /\ closed' = closed + 1
            /\ log' = [log EXCEPT !.configured = TRUE]
            /\ Exit(0, "Configured")
            /\ UNCHANGED cfg_dir
    /\ UNCHANGED <<runs, args, locals, fs, pre, prev_saved>>

\* A variant that tests readability before file-ness.
check_video_swapped(p) ==
    IF p \notin files \cup dirs THEN "NotFound"
    ELSE IF p \in unreadable THEN "NotReadable"
    ELSE IF p \notin files THEN "NotAFile"
    ELSE ""

\* The three checks of lines 106-118 in the order the code makes them:
\* os.path.exists, os.path.isfile, os.access(R_OK); "" when all pass.
check_video(p) ==
    IF p \notin files \cup dirs THEN "NotFound"
    ELSE IF p \notin files THEN "NotAFile"
    ELSE IF p \in unreadable THEN "NotReadable"
    ELSE ""

\* convid(), lines 99-118: the checks on the video file.
convid_check ==
    /\ pc = "check"
    /\ f' = abspath(video)
    /\ log' = [log EXCEPT !.checked = TRUE]
    /\ IF check_video(f') # ""
       THEN Exit(1, check_video(f'))
       ELSE pc' = "ext" /\ UNCHANGED <<exit_code, outcome>>
    /\ UNCHANGED <<runs, args, old_ext, new_file, fs, store, handles, pre, prev_saved>>

\* A variant that compares the extensions without regard to case.
lower(c) == IF c = "A" THEN "a" ELSE c
same_ext_nocase(old, new) ==
    [i \in DOMAIN old |-> lower(old[i])] = [i \in DOMAIN new |-> lower(new[i])]

\* The comparison of line 126: exact string equality.
same_ext(old, new) == old = new

\* convid(), lines 120-145: extension clean-up, confirmation, new file name.
convid_ext ==
    /\ pc = "ext"
    /\ ext' = normalize_ext(ext)
    /\ old_ext' = splitext(f)[2]
    /\ \E proceed \in BOOLEAN :
          IF same_ext(old_ext', ext')
          THEN /\ log' = [log EXCEPT !.asked = TRUE, !.declined = ~proceed]
               /\ IF ~proceed
                  THEN Exit(1, "Abort") /\ UNCHANGED new_file
                  ELSE /\ new_file' = splitext(f)[1] \o ext'
                       /\ pc' = "convert" /\ UNCHANGED <<exit_code, outcome>>
          ELSE /\ new_file' = splitext(f)[1] \o ext'
               /\ pc' = "convert" /\ UNCHANGED <<exit_code, outcome, log>>
    /\ UNCHANGED <<runs, video, remove, verbose, ffmpeg_opt, f, fs, store, handles,
                   pre, prev_saved>>

\* A variant whose except clauses report the failure and carry on.
tool_failed_swallowed(result) == FALSE

\* The except clauses of lines 163-180: any exception of the try block ends
\* the process with status 1.
tool_failed(result) == result # "ok"

\* convid(), lines 147-180: load the configuration and run the external tool.
\* The tool is a black box: it succeeds (the output file exists), cannot be
\* run (AttributeError branch) or fails (any other exception).
convid_convert ==
    /\ pc = "convert"
    /\ LET r == get_convid_configs(cfg_dir, cfg_exists, cfg_text)
       IN  /\ cfg_dir' = r.dir /\ cfg_exists' = r.exists /\ cfg_text' = r.text
           /\ opened' = opened + r.opened /\ closed' = closed + r.closed
           /\ IF r.raised # ""
              THEN /\ log' = [log EXCEPT !.cfg_read = TRUE, !.load_raised = r.raised]
                   /\ Exit(1, "ConversionFailed")
                   /\ UNCHANGED fs
              ELSE \E result \in {"ok", "AttributeError", "Error"} :
                     /\ log' = [log EXCEPT !.cfg_read = TRUE, !.config = r.config,
                                           !.invoked = TRUE,
                                           !.cmd = dict_get(r.config, FfmpegKey, DefaultFfmpeg),
                                           !.quiet = IF verbose THEN FALSE ELSE TRUE,
                                           !.converted = (result = "ok")]
                     /\ result = "ok" => new_file \notin dirs
                     /\ files' = IF result = "ok" THEN files \cup {new_file} ELSE files
                     /\ UNCHANGED <<dirs, unreadable>>
                     /\ IF tool_failed(result)
                        THEN Exit(1, IF result = "AttributeError"
                                     THEN "ToolMissing" ELSE "ConversionFailed")
                        ELSE pc' = "remove" /\ UNCHANGED <<exit_code, outcome>>
    /\ UNCHANGED <<runs, args, locals, pre, prev_saved>>

\* convid(), lines 182-195: remove the old video when asked, then exit 0.
convid_remove ==
    /\ pc = "remove"
    /\ IF remove
       THEN \E rm_ok \in BOOLEAN :
              IF rm_ok /\ f \in files
              THEN /\ files' = files \ {f}
                   /\ unreadable' = unreadable \ {f}
                   /\ log' = [log EXCEPT !.removed = TRUE]
                   /\ Exit(0, "Success")
                   /\ UNCHANGED dirs
              ELSE /\ Exit(1, "RemovalFailed")
                   /\ UNCHANGED <<fs, log>>
       ELSE Exit(0, "Success") /\ UNCHANGED <<fs, log>>
    /\ UNCHANGED <<runs, args, locals, store, handles, pre, prev_saved>>

Next ==
    \/ Invoke
    \/ click_path
    \/ configure_ffmpeg
    \/ convid_check
    \/ convid_ext
    \/ convid_convert
    \/ convid_remove

Spec == Init /\ [][Next]_vars

----------------------------------------------------------------------------
\* Properties

\* What the claims call the inputs of a run, stated from the command line and
\* the file system the run found.
Source == abspath(video)
Dotted(e) == IF Len(e) >= 1 /\ e[1] = "." THEN e ELSE <<".">> \o e
SourceExt == splitext(Source)[2]
Target == splitext(Source)[1] \o Dotted(pre.ext)
SourceState ==
    IF Source \notin pre.files \cup pre.dirs THEN "NotFound"
    ELSE IF Source \in pre.dirs THEN "NotAFile"
    ELSE IF Source \in pre.unreadable THEN "NotReadable"
    ELSE "valid"
StoreUnchanged ==
    cfg_dir = pre.cfg_dir /\ cfg_exists = pre.cfg_exists /\ cfg_text = pre.cfg_text
FsUnchanged == files = pre.files /\ dirs = pre.dirs
Parseable(text) == json_load(text).ok
\* The run is a conversion run: --ffmpeg was not given.
Conversion == pc # "idle" /\ ffmpeg_opt = <<>>

\* C1: the source file disappears only in a run whose conversion succeeded;
\* a run whose conversion step failed (configuration load or tool) ends with
\* status 1 and the source still in place, whatever the remove flag.
C1_RemoveOnlyAfterConversion ==
    /\ (Conversion /\ Source \in pre.files /\ Source \notin files) => log.converted
    /\ log.removed => log.converted
    /\ (pc = "done" /\ log.cfg_read /\ ~log.converted)
          => (exit_code = 1 /\ Source \in files /\ ~log.removed)

C1_Witness ==
    pc = "done" /\ remove /\ log.invoked /\ ~log.converted /\ exit_code = 1
    /\ Source \in files

\* C2: a run whose source path is missing, not a regular file or unreadable
\* ends with status 1 and the matching error (in that order of precedence),
\* without invoking the tool, touching the configuration store or changing
\* the file system.
C2_ValidationFailure ==
    (pc = "done" /\ Conversion /\ SourceState # "valid")
       => /\ exit_code = 1
          /\ outcome = SourceState
          /\ ~log.invoked /\ ~log.cfg_read
          /\ StoreUnchanged /\ FsUnchanged
          /\ opened = 0

C2_Witness ==
    pc = "done" /\ Conversion /\ outcome = "NotAFile" /\ Source \in pre.unreadable

\* C3: confirmation is requested exactly when the dotted target extension
\* equals the source's extension; a declined confirmation ends the run as an
\* abort with the file system and the store unchanged, no tool invocation and
\* no removal.
C3_ConfirmOnSameExtension ==
    /\ (Conversion /\ SourceState = "valid" /\ pc \in {"convert", "remove", "done"})
          => (log.asked <=> SourceExt = Dotted(pre.ext))
    /\ ~log.checked => ~log.asked
    /\ pc \in {"option", "check", "ext"} => ~log.asked
    /\ log.declined
          => /\ pc = "done" /\ outcome = "Abort"
             /\ FsUnchanged /\ StoreUnchanged
             /\ ~log.invoked /\ ~log.removed /\ ~log.cfg_read
    /\ outcome = "Abort" => log.declined

C3_Witness ==
    pc = "done" /\ outcome = "Abort" /\ pre.ext = <<"a">> /\ remove
    /\ Source \in files

\* C4: a conversion run on a valid source with a different extension, a tool
\* that succeeds when invoked, and a store whose file is absent or parseable
\* ends with status 0, the target in place, and the source in place exactly
\* when the remove flag is unset.
C4_EndToEndSuccess ==
    (/\ pc = "done" /\ Conversion
     /\ SourceState = "valid" /\ SourceExt # Dotted(pre.ext)
     /\ (~pre.cfg_exists \/ Parseable(pre.cfg_text))
     /\ (log.invoked => log.converted)
     /\ outcome # "RemovalFailed")
       => /\ exit_code = 0
          /\ Target \in files
          /\ (Source \in files <=> ~remove)

\* C5: a configuration load that finds no file leaves the directory and a
\* parseable empty file, returns the empty mapping without raising, and the
\* tool is invoked under the default name.
C5_LoadCreatesEmptyConfig ==
    (log.cfg_read /\ ~pre.cfg_exists)
       => /\ log.load_raised = ""
          /\ cfg_dir /\ cfg_exists
          /\ Parseable(cfg_text) /\ json_load(cfg_text).val = EmptyConfig
          /\ log.config = EmptyConfig
          /\ log.invoked /\ log.cmd = DefaultFfmpeg

\* C6: after a run given --ffmpeg P, loading the configuration returns a
\* mapping with "ffmpeg" -> P, and the conversion run that follows invokes the
\* tool as P, whatever store the --ffmpeg run found.
C6_ConfigRoundTrip ==
    /\ (pc = "done" /\ log.configured)
          => LET r == get_convid_configs(cfg_dir, cfg_exists, cfg_text)
             IN  /\ r.raised = ""
                 /\ FfmpegKey \in DOMAIN r.config
                 /\ r.config[FfmpegKey] = ffmpeg_opt
    /\ (prev_saved # <<>> /\ log.cfg_read)
          => /\ log.load_raised = ""
             /\ dict_get(log.config, FfmpegKey, <<>>) = prev_saved
             /\ log.invoked /\ log.cmd = prev_saved

\* C6 restricted to --ffmpeg runs that found the configuration directory.
C6_RoundTripWhenDirExists ==
    /\ (pc = "done" /\ log.configured /\ pre.cfg_dir)
          => LET r == get_convid_configs(cfg_dir, cfg_exists, cfg_text)
             IN  /\ r.raised = ""
                 /\ FfmpegKey \in DOMAIN r.config
                 /\ r.config[FfmpegKey] = ffmpeg_opt
    /\ (prev_saved # <<>> /\ log.cfg_read /\ pre.cfg_exists)
          => /\ log.load_raised = ""
             /\ dict_get(log.config, FfmpegKey, <<>>) = prev_saved
             /\ log.invoked /\ log.cmd = prev_saved

\* C7: a run given --ffmpeg with a value writes the configuration and ends
\* without validating the video, invoking the tool, or creating or deleting
\* any file, whatever the other arguments.
C7_EagerOption ==
    (pc = "done" /\ log.configured)
       => /\ cfg_exists
          /\ cfg_text = json_dump([k \in {FfmpegKey} |-> ffmpeg_opt])
          /\ ~log.checked /\ ~log.asked /\ ~log.invoked /\ ~log.removed
          /\ FsUnchanged

\* C7 without the write: no conversion logic runs once --ffmpeg has a value.
C7_NoConversionLogic ==
    (pc = "done" /\ log.configured)
       => /\ ~log.checked /\ ~log.asked /\ ~log.invoked /\ ~log.removed
          /\ FsUnchanged

\* C8: a finished run has closed every file handle it opened.
C8_HandlesReleased == pc = "done" => opened = closed

\* C9: a conversion run that ends with status 0 leaves a file at the target.
C9_TargetExistsOnSuccess ==
    (pc = "done" /\ Conversion /\ exit_code = 0) => Target \in files

\* C9 away from the case where source and target are one file and the source
\* is removed.
C9_TargetExistsUnlessSameFile ==
    (pc = "done" /\ Conversion /\ exit_code = 0 /\ ~(remove /\ Target = Source))
       => Target \in files

\* C10: between runs the configuration file is absent or parseable.
C10_ConfigStaysParseable ==
    pc \in {"idle", "done"} => (~cfg_exists \/ Parseable(cfg_text))

====
